---------------------------- MODULE Spec2Model ----------------------------
(***************************************************************************)
(* Shoseki-Scraper: the ranking pipeline of shoseki_scraper.py and its GUI *)
(* twin in shoseki_gui.py, with the four pure helpers it is built from     *)
(* (_parse_baseline, _make_estimator, _extract_rank_list,                  *)
(* _extract_date_info).                                                    *)
(*                                                                         *)
(* Text is modelled as a sequence of symbols.  A symbol is one character   *)
(* or one lexical unit that the regular expressions of the source treat as *)
(* a whole; the class of each symbol (\s, \d, contains "<") is defined     *)
(* below.  Python's None is the empty tuple and a present value x is <<x>>.*)
(***************************************************************************)
EXTENDS Integers, Sequences, FiniteSets, TLC

VARIABLES
    mode,           \* "cli": scrape_latest_weekly_and_estimate + __main__; "gui": _scrape_and_save
    limit,          \* the rank limit
    use_monthly,    \* the period selector
    soup,           \* the fetched article: header, text, entry body
    pc,             \* position of the run
    date_info,      \* result of _extract_date_info
    breakpoints,    \* result of _parse_baseline, the estimator's closure
    rank_lines,     \* result of _extract_rank_list
    unique_titles,  \* list({title ...}): the titles still to be looked up, in list order
    en_map,         \* title -> lookup answer
    results,        \* the entries appended so far
    row_i,          \* number of rank_lines the loop has consumed
    data,           \* the returned RankingResult (None until assembled)
    written,        \* whether the JSON file was written
    error,          \* the exception that ended the run (None if none)
    progress,       \* the (current, total) events the GUI callback received
    batch_failed,   \* history: titles of lookup batches that failed entirely
    answered,       \* history: titles the lookup service returned a name for
    mt_failed,      \* history: indices of rank_lines whose translation call raised
    call            \* a helper applied on its own: its name, argument and outcome

vars == <<mode, limit, use_monthly, soup, pc, date_info, breakpoints, rank_lines,
          unique_titles, en_map, results, row_i, data, written, error, progress,
          batch_failed, answered, mt_failed, call>>

-----------------------------------------------------------------------------
(* Bounds of the model *)

MaxBps == 3         \* longest baseline of the estimator runs
MaxBpRank == 4      \* largest breakpoint rank of the estimator runs
MaxSales == 3       \* largest breakpoint sales value of the estimator runs
MaxRows == 3        \* most ranking lines in the markup of a run
MaxRank == 3        \* largest rank written in the markup of a run
MaxLimit == 3       \* largest rank limit of a run
MaxTextLen == 6     \* longest article text given to _parse_baseline alone
MaxRankDigits == 4  \* longest digit string opening a line given to _extract_rank_list alone
MaxTitleLen == 3    \* longest title stretch of such a line
MaxMonthDigits == 3 \* longest month digit string of a header given to _extract_date_info alone

-----------------------------------------------------------------------------
(* Python values *)

None == <<>>
Some(x) == <<x>>
Return(v) == [kind |-> "return", val |-> <<v>>, err |-> ""]
Raise(e) == [kind |-> "raise", val |-> <<>>, err |-> e]

\* int(x / d) for an exact rational x / d with d > 0: truncation toward zero
TruncDiv(x, d) == IF x >= 0 THEN x \div d ELSE -((-x) \div d)

Min(a, b) == IF a <= b THEN a ELSE b

\* the least element of a non-empty set of integers
Least(S) == CHOOSE x \in S : \A y \in S : x <= y

-----------------------------------------------------------------------------
(* 3. Baseline estimator: _make_estimator *)

\* tuple comparison of Python: (r1, v1) <= (r2, v2)
PairLeq(p, q) == p[1] < q[1] \/ (p[1] = q[1] /\ p[2] <= q[2])

IsSortedPairs(s) == \A i \in 1..(Len(s) - 1) : PairLeq(s[i], s[i + 1])

InDomainNoUpper(bps, rank) == 1 <= rank

\* line 146: 1 <= rank <= breakpoints[-1][0]
InDomain(bps, rank) == 1 <= rank /\ rank <= bps[Len(bps)][1]

InterpolateQuotient(p, q, rank) ==
    p[2] + TruncDiv((q[2] - p[2]) * (rank - p[1]), q[1] - p[1])

\* line 155: int(v1 + (v2 - v1) * (rank - r1) / (r2 - r1)).  The true division
\* and the sum are exact rationals here (the double arithmetic of Python is
\* exact to well below 1/(r2 - r1) for values of this size); int() truncates
\* the sum.
Interpolate(p, q, rank) ==
    TruncDiv(p[2] * (q[1] - p[1]) + (q[2] - p[2]) * (rank - p[1]), q[1] - p[1])

\* lines 145-156
estimator(bps, rank) ==
    LET n == Len(bps)
        exact == {i \in 1..n : bps[i][1] = rank}
        between == {i \in 1..(n - 1) : bps[i][1] < rank /\ rank < bps[i + 1][1]}
    IN  IF ~InDomain(bps, rank) THEN Raise("ValueError")
        ELSE IF rank <= bps[1][1] THEN Return(-1)
        ELSE IF exact # {} THEN Return(bps[Least(exact)][2])
        ELSE IF between # {}
             THEN Return(Interpolate(bps[Least(between)], bps[Least(between) + 1], rank))
        ELSE Return(bps[n][2])

-----------------------------------------------------------------------------
(* 3. Baseline parsing: _parse_baseline *)

(* A symbol of the article text.  "kome" is the reference mark U+203B,     *)
(* "phrase" the fixed phrase of line 135 (the rough-sales-estimate words), *)
(* "nl" a newline, "pair" one <digits> U+4F4D <digits> token with its two  *)
(* numbers, "x" any other character.                                       *)
Sym(t) == [t |-> t, r |-> 0, v |-> 0]
PairTok(r, v) == [t |-> "pair", r |-> r, v |-> v]

RECURSIVE Insert(_, _)
Insert(p, s) ==
    IF s = <<>> THEN <<p>>
    ELSE IF PairLeq(p, s[1]) THEN <<p>> \o s
    ELSE <<s[1]>> \o Insert(p, Tail(s))

\* sorted(list of tuples), line 141
RECURSIVE SortPairs(_)
SortPairs(s) == IF s = <<>> THEN <<>> ELSE Insert(s[1], SortPairs(Tail(s)))

IsPairTok(c) == c.t = "pair"

\* re.findall(r"(\d+)<U+4F4D>(\d+)", s) with int() of both groups, lines 138, 141
FindPairs(s) ==
    LET toks == SelectSeq(s, IsPairTok)
    IN  [i \in 1..Len(toks) |-> <<toks[i].r, toks[i].v>>]

\* the first newline at or after position i, or Len(text) + 1
LineEnd(text, i) ==
    Least({j \in i..(Len(text) + 1) : j = Len(text) + 1 \/ text[j].t = "nl"})

\* The positions where the pattern of line 135 matches: a reference mark with
\* the phrase after it on the same line.
MarkerStarts(text) ==
    {i \in 1..Len(text) :
        /\ text[i].t = "kome"
        /\ \E j \in (i + 1)..(LineEnd(text, i) - 1) : text[j].t = "phrase"}

\* group(1) of the match of line 135: [^\n]* runs to the end of the marker
\* line, \n? takes the newline, and (.*) is the one line after it.
BaselineGroup(text) ==
    LET eol == LineEnd(text, Least(MarkerStarts(text)))
    IN  IF eol > Len(text) THEN <<>>
        ELSE SubSeq(text, eol + 1, LineEnd(text, eol + 1) - 1)

\* lines 134-141
parse_baseline(text) ==
    IF MarkerStarts(text) = {} THEN Raise("Baseline line not found.")
    ELSE IF FindPairs(BaselineGroup(text)) = <<>>
         THEN Raise("No baseline rank/sales pairs found.")
    ELSE Return(SortPairs(FindPairs(BaselineGroup(text))))

-----------------------------------------------------------------------------
(* 4. Ranking row extraction: ROW_RE and _extract_rank_list *)

(* A symbol of the markup is a string: an ASCII digit "0".."9", a          *)
(* full-width digit "F0".."F9", an ASCII letter "A" or "B", a full-width   *)
(* letter "FA" or "FB", the space " ", the full-width space "FS", "LINK"   *)
(* (a whole <a href=...>digits</a> element), "DATE" (a whole dddd.dd.dd    *)
(* date), or "<" (any other whole tag, such as <b>).                       *)
DigitChars == <<"0", "1", "2", "3", "4", "5", "6", "7", "8", "9">>
FwDigitChars == <<"F0", "F1", "F2", "F3", "F4", "F5", "F6", "F7", "F8", "F9">>
FwLetters == {"FA", "FB"}

IsAsciiDigit(c) == \E i \in 1..Len(DigitChars) : DigitChars[i] = c
IsFwDigit(c) == \E i \in 1..Len(FwDigitChars) : FwDigitChars[i] = c
\* \d of a str pattern matches every Unicode decimal digit
IsDigit(c) == IsAsciiDigit(c) \/ IsFwDigit(c)
\* \s, and what str.strip() removes
IsSpace(c) == c \in {" ", "FS"}
NonSpace(c) == ~IsSpace(c)
\* the symbols [^<] refuses
HasLt(c) == c \in {"LINK", "<"}

DigitVal(c) ==
    (CHOOSE i \in 1..Len(DigitChars) : DigitChars[i] = c \/ FwDigitChars[i] = c) - 1

\* int() of a digit string
RECURSIVE IntOf(_)
IntOf(s) ==
    IF s = <<>> THEN 0
    ELSE IntOf(SubSeq(s, 1, Len(s) - 1)) * Len(DigitChars) + DigitVal(s[Len(s)])

\* the character classes the patterns and strip() use: \s, \S, \d, [0-9]
InClass(cls, c) ==
    CASE cls = "space" -> IsSpace(c)
      [] cls = "nonspace" -> NonSpace(c)
      [] cls = "digit" -> IsDigit(c)
      [] cls = "asciidigit" -> IsAsciiDigit(c)

\* length of the longest prefix / suffix of s whose symbols are all of class cls
LeadCount(cls, s) == Least({i \in 0..Len(s) : i = Len(s) \/ ~InClass(cls, s[i + 1])})
TrailCount(cls, s) == Least({i \in 0..Len(s) : i = Len(s) \/ ~InClass(cls, s[Len(s) - i])})
DropLead(cls, s) == SubSeq(s, LeadCount(cls, s) + 1, Len(s))
DropTrail(cls, s) == SubSeq(s, 1, Len(s) - TrailCount(cls, s))

\* str.strip()
Strip(s) == DropTrail("space", DropLead("space", s))

\* A link read as text: its tag holds a space (<a href=...>), so to \S+ it is
\* two tokens, and both hold a "<".
RECURSIVE ExpandLinks(_)
ExpandLinks(s) ==
    IF s = <<>> THEN <<>>
    ELSE (IF s[1] = "LINK" THEN <<"<", " ", "<">> ELSE <<s[1]>>) \o ExpandLinks(Tail(s))

(* ROW_RE.match(s), lines 164-171, as None or Some(<<group(1), group(2)>>).*)
(* The pattern is anchored at both ends, so the parse is forced from the   *)
(* right: the last symbol is the date, before it stand two whole           *)
(* whitespace-separated tokens (each \S+ is bounded by \s on both sides),  *)
(* and everything between the link and the first of them is                *)
(* \s* ([^<]+?) \s+ : at least two symbols, none containing "<".  \s* is   *)
(* greedy and the title lazy, so the title group is that stretch without   *)
(* its surrounding whitespace, or one whitespace symbol if the stretch is  *)
(* whitespace only.                                                        *)

\* r ends with \S+\s+ ; and r without that
EndsWithToken(r) ==
    TrailCount("space", r) >= 1 /\ TrailCount("nonspace", DropTrail("space", r)) >= 1
BeforeToken(r) == DropTrail("nonspace", DropTrail("space", r))

\* \s*([^<]+?)\s+ against the whole stretch x
RowTitle(digits, x) ==
    IF Len(x) >= 2 /\ \A i \in 1..Len(x) : ~HasLt(x[i])
    THEN Some(<<digits, IF Strip(x) = <<>> THEN <<x[Len(x) - 1]>> ELSE Strip(x)>>)
    ELSE None

\* (?:\S+\s+){2} at the end of r
RowAuthor(digits, r) ==
    IF EndsWithToken(r) THEN RowTitle(digits, BeforeToken(r)) ELSE None
RowPublisher(digits, r) ==
    IF EndsWithToken(r) THEN RowAuthor(digits, BeforeToken(r)) ELSE None

\* \d{4}\.\d{2}\.\d{2}$ at the end of rest
RowDate(digits, rest) ==
    IF rest # <<>> /\ rest[Len(rest)] = "DATE"
    THEN RowPublisher(digits, SubSeq(rest, 1, Len(rest) - 1))
    ELSE None

\* <[^>]+>\s*\d+\s*</a> at the start of b
RowLink(digits, b) ==
    IF b # <<>> /\ b[1] = "LINK" THEN RowDate(digits, ExpandLinks(Tail(b))) ELSE None

\* (\d{1,3})\s* : the k digits s starts with
RowRank(s, k) ==
    IF k >= 1 /\ k <= Len(<<"d", "d", "d">>)
    THEN RowLink(SubSeq(s, 1, k), DropLead("space", SubSeq(s, k + 1, Len(s))))
    ELSE None

RowMatch(s) == RowRank(s, LeadCount("digit", s))

\* line 185: title.replace(full-width space, " ")
ReplaceFwSpace(s) == [i \in 1..Len(s) |-> IF s[i] = "FS" THEN " " ELSE s[i]]

\* line 188: chr(ord(x) - 0xFEE0) on [full-width A-Z a-z]
FwLetterToAscii(c) == IF c = "FA" THEN "A" ELSE "B"
\* line 189: str(int(x)) on [full-width 0-9]
FwDigitToAscii(c) == DigitChars[DigitVal(c) + 1]

ToAscii(s) ==
    [i \in 1..Len(s) |->
        IF s[i] \in FwLetters THEN FwLetterToAscii(s[i])
        ELSE IF IsFwDigit(s[i]) THEN FwDigitToAscii(s[i])
        ELSE s[i]]

\* lines 183-189
CleanTitle(g) == ToAscii(Strip(ReplaceFwSpace(Strip(g))))

\* lines 192-193: re.search(r"\s(\d+)$", title), int(group(1)) or None
Volume(title) ==
    LET n == TrailCount("asciidigit", title)
    IN  IF n >= 1 /\ n < Len(title) /\ IsSpace(title[Len(title) - n])
        THEN Some(IntOf(SubSeq(title, Len(title) - n + 1, Len(title))))
        ELSE None

\* line 195: the appended tuple
MakeRow(rank, title) == <<rank, title, Volume(title)>>

RowFrom(m) ==
    IF m = None THEN <<>> ELSE <<MakeRow(IntOf(m[1][1]), CleanTitle(m[1][2]))>>

\* lines 181-195, for one element of entry.decode_contents().split("<br/>"):
\* the rows it contributes
RowsOf(raw) == RowFrom(RowMatch(Strip(raw)))

RECURSIVE RowsOfAll(_)
RowsOfAll(lines) ==
    IF lines = <<>> THEN <<>> ELSE RowsOf(lines[1]) \o RowsOfAll(Tail(lines))

\* lines 174-196.  entry is None (no div.entry_body) or Some(the lines between
\* the <br/> marks).
extract_rank_list(entry) == IF entry = None THEN <<>> ELSE RowsOfAll(entry[1])

-----------------------------------------------------------------------------
(* 4. Date header: _extract_date_info *)

(* A symbol of the header text is a digit, "Y" (the year sign U+5E74), "M" *)
(* (the month sign U+6708), "/", "-" or any other string.  A month name is *)
(* one symbol.                                                             *)

\* calendar.month_name: index 0 is the empty string
month_name ==
    <<<<>>, <<"January">>, <<"February">>, <<"March">>, <<"April">>, <<"May">>,
      <<"June">>, <<"July">>, <<"August">>, <<"September">>, <<"October">>,
      <<"November">>, <<"December">>>>

MonthInList(m) == IntOf(m) < Len(month_name)
\* calendar.month_name[int(m)], where it does not raise IndexError
MonthName(m) == month_name[IntOf(m) + 1]

At(text, p) == IF p >= 1 /\ p <= Len(text) THEN text[p] ELSE "EOT"
AllDigits(text, p, n) == \A i \in p..(p + n - 1) : IsDigit(At(text, i))

\* the length \d{1,2} takes at p when the literal d must follow it; 0 if it cannot
Digits12Then(text, p, d) ==
    IF AllDigits(text, p, 2) /\ At(text, p + 2) = d THEN 2
    ELSE IF AllDigits(text, p, 1) /\ At(text, p + 1) = d THEN 1
    ELSE 0

\* the length a final, greedy \d{1,2} takes at p; 0 if it cannot
Digits12(text, p) ==
    IF AllDigits(text, p, 2) THEN 2 ELSE IF AllDigits(text, p, 1) THEN 1 ELSE 0

\* \d{4} and the year sign at p
YearAt(text, p) == AllDigits(text, p, 4) /\ At(text, p + 4) = "Y"

\* line 210: the start positions of (\d{4})Y(\d{1,2})M
MonthlyStarts(text) ==
    {p \in 1..Len(text) : YearAt(text, p) /\ Digits12Then(text, p + 5, "M") > 0}

\* line 221: the group lengths of (\d{4})Y(\d{1,2})/(\d{1,2})-(\d{1,2})/(\d{1,2}) at p
WeeklyLens(text, p) ==
    LET a == Digits12Then(text, p + 5, "/")
        b == Digits12Then(text, p + 5 + a + 1, "-")
        c == Digits12Then(text, p + 5 + a + 1 + b + 1, "/")
        d == Digits12(text, p + 5 + a + 1 + b + 1 + c + 1)
    IN  IF YearAt(text, p) /\ a > 0 /\ b > 0 /\ c > 0 /\ d > 0
        THEN <<a, b, c, d>> ELSE <<>>

WeeklyStarts(text) == {p \in 1..Len(text) : WeeklyLens(text, p) # <<>>}

DateInfo(jp, en, y, m, w) ==
    [jp_date |-> jp, en_date |-> en, year |-> y, month |-> m, week |-> w]

NoDate == DateInfo(None, None, None, None, None)

\* lines 208-218
MonthlyInfo(text) ==
    LET p == Least(MonthlyStarts(text))
        year == SubSeq(text, p, p + 3)
        month == SubSeq(text, p + 5, p + 4 + Digits12Then(text, p + 5, "M"))
    IN  IF MonthlyStarts(text) = {} THEN Return(NoDate)
        ELSE IF ~MonthInList(month) THEN Raise("IndexError")
        ELSE Return(DateInfo(Some(year \o <<"Y">> \o month \o <<"M">>),
                             Some(MonthName(month) \o <<" ">> \o year),
                             Some(year), Some(month), None))

\* lines 219-230
WeeklyInfo(text) ==
    LET p == Least(WeeklyStarts(text))
        n == WeeklyLens(text, p)
        year == SubSeq(text, p, p + 3)
        q1 == p + 5
        start_month == SubSeq(text, q1, q1 + n[1] - 1)
        q2 == q1 + n[1] + 1
        start_day == SubSeq(text, q2, q2 + n[2] - 1)
        q3 == q2 + n[2] + 1
        end_month == SubSeq(text, q3, q3 + n[3] - 1)
        q4 == q3 + n[3] + 1
        end_day == SubSeq(text, q4, q4 + n[4] - 1)
        week == start_month \o <<"/">> \o start_day \o <<"-">> \o end_month
                    \o <<"/">> \o end_day
    IN  IF WeeklyStarts(text) = {} THEN Return(NoDate)
        ELSE IF ~MonthInList(start_month) \/ ~MonthInList(end_month)
             THEN Raise("IndexError")
        ELSE Return(DateInfo(Some(year \o <<"Y">> \o week),
                             Some(MonthName(start_month) \o <<" ">> \o start_day
                                  \o <<" ", "-", " ">> \o MonthName(end_month)
                                  \o <<" ">> \o end_day \o <<",", " ">> \o year),
                             Some(year), None, Some(week)))

\* lines 199-237.  header is None (no h2.entry_header) or Some(its text).
extract_date_info(header, is_monthly) ==
    IF header = None THEN Return(NoDate)
    ELSE IF is_monthly THEN MonthlyInfo(header[1])
    ELSE WeeklyInfo(header[1])

-----------------------------------------------------------------------------
(* 2. Title resolution: _query_anilist_batch, _machine_translate *)

ALIAS_BATCH == 50

\* the name the lookup service holds for a title, and the translator's output
AniListName(jp) == <<"anilist:">> \o jp
Translation(jp) == <<"mt:">> \o jp

(* What one POST of lines 91-98 can bring for a batch.  "raised": the      *)
(* request, the status check, the JSON decoding or the ["data"] subscript *)
(* raises inside the try.  "answered": the reply holds a non-empty name   *)
(* for the titles in hit.  "malformed": the reply decodes and has a       *)
(* "data" member that is no object (null, as GraphQL sends with a request *)
(* error), so data.get of line 104, outside the try, raises.              *)
BatchOutcomes(batch) ==
    {[kind |-> "raised", hit |-> {}], [kind |-> "malformed", hit |-> {}]}
        \cup {[kind |-> "answered", hit |-> h] : h \in SUBSET batch}

\* lines 90-110: the dict _query_anilist_batch returns, or what it raises
BatchResult(batch, o) ==
    IF o.kind = "malformed" THEN Raise("AttributeError")
    ELSE Return([t \in batch |->
                    IF o.kind = "answered" /\ t \in o.hit
                    THEN Some(AniListName(t)) ELSE None])

\* lines 113-118: the translator's answer, or the title itself if it raised
machine_translate(jp, mt_ok) == IF mt_ok THEN Translation(jp) ELSE jp

\* dict.get
Get(map, key) == IF key \in DOMAIN map THEN map[key] ELSE None

\* truth value of an Optional[str] whose strings are non-empty
Truthy(x) == x # None

-----------------------------------------------------------------------------
(* 5. The run: scrape_latest_weekly_and_estimate with __main__ (mode "cli") *)
(*    and ShosekiGUI._scrape_and_save (mode "gui")                          *)

OverLimitInclusive(rank, lim) == rank >= lim

\* scraper line 268, gui line 85
OverLimit(rank, lim) == rank > lim

\* scraper lines 271-275, gui line 88
SourceOf(en) == IF Truthy(en) THEN "anilist" ELSE "machine_translation"

Prepend(res, e) == <<e>> \o res

\* results.append(...)
AddEntry(res, e) == Append(res, e)

\* gui line 75
Total == Min(limit, Len(rank_lines))

Titles(rows) == {rows[i][2] : i \in 1..Len(rows)}

Fail(e) ==
    /\ pc' = "failed"
    /\ error' = Some(e)

(* Lines 245-246, gui 69-70: the two fetches.  Either raises (HTTP error,  *)
(* "No article link found on category page.") or delivers the soup.        *)
Fetch ==
    /\ pc = "fetch"
    /\ \E ok \in BOOLEAN :
        IF ok THEN pc' = "parse" /\ error' = error
        ELSE Fail("fetch failed")
    /\ UNCHANGED <<mode, limit, use_monthly, soup, date_info, breakpoints, rank_lines,
                   unique_titles, en_map, results, row_i, data, written, progress,
                   batch_failed, answered, mt_failed, call>>

(* Lines 247-256, gui 71-78.  The scraper reads the date before the        *)
(* baseline, the GUI after it; the first helper to raise ends the run.     *)
Prepare ==
    /\ pc = "parse"
    /\ \E d \in {extract_date_info(soup.header, use_monthly)},
          b \in {parse_baseline(soup.text)},
          rows \in {extract_rank_list(soup.entry)} :
        \E first \in {IF mode = "cli" THEN d ELSE b},
           second \in {IF mode = "cli" THEN b ELSE d} :
            IF first.kind = "raise"
            THEN Fail(first.err)
                 /\ UNCHANGED <<date_info, breakpoints, rank_lines, unique_titles>>
            ELSE IF second.kind = "raise"
            THEN Fail(second.err)
                 /\ UNCHANGED <<date_info, breakpoints, rank_lines, unique_titles>>
            ELSE /\ pc' = "run"
                 /\ error' = error
                 /\ date_info' = d.val[1]
                 /\ breakpoints' = b.val[1]
                 /\ rank_lines' = rows
                 /\ unique_titles' = Titles(rows)
    /\ UNCHANGED <<mode, limit, use_monthly, soup, en_map, results, row_i, data,
                   written, progress, batch_failed, answered, mt_failed, call>>

(* Lines 257-261, gui 79-82: one turn of the batch loop.  list(set) has no *)
(* fixed order, so a slice of ALIAS_BATCH titles is any ALIAS_BATCH of the *)
(* titles not yet sent (all of them, if fewer are left).                   *)
LookupBatch ==
    /\ pc = "run"
    /\ unique_titles # {}
    /\ \E batch \in SUBSET unique_titles :
        /\ Cardinality(batch) = Min(ALIAS_BATCH, Cardinality(unique_titles))
        /\ \E o \in BatchOutcomes(batch) :
            \E res \in {BatchResult(batch, o)} :
                IF res.kind = "raise"
                THEN /\ Fail(res.err)
                     /\ UNCHANGED <<unique_titles, en_map, batch_failed, answered>>
                ELSE /\ en_map' = [t \in DOMAIN en_map \cup batch |->
                                      IF t \in batch THEN res.val[1][t] ELSE en_map[t]]
                     /\ batch_failed' = IF o.kind = "raised"
                                        THEN batch_failed \cup batch ELSE batch_failed
                     /\ answered' = answered \cup o.hit
                     /\ unique_titles' = unique_titles \ batch
                     /\ UNCHANGED <<pc, error>>
    /\ UNCHANGED <<mode, limit, use_monthly, soup, date_info, breakpoints,
                   rank_lines, results, row_i, data, written, progress,
                   mt_failed, call>>

(* Lines 267-283, gui 84-99: one turn of the row loop.  The translator is  *)
(* called (and may raise inside _machine_translate) only when the lookup   *)
(* gave nothing; the estimator is called last, while the entry is built.   *)
ProcessRow ==
    /\ pc = "run"
    /\ unique_titles = {}
    /\ row_i < Len(rank_lines)
    /\ LET row == rank_lines[row_i + 1]
           rank == row[1]
           jp == row[2]
           en == Get(en_map, jp)
           est == estimator(breakpoints, rank)
       IN  IF OverLimit(rank, limit)
           THEN /\ row_i' = row_i + 1
                /\ UNCHANGED <<pc, error, results, progress, mt_failed>>
           ELSE \E mt_ok \in (IF Truthy(en) THEN {TRUE} ELSE BOOLEAN) :
                /\ mt_failed' = IF mt_ok THEN mt_failed ELSE mt_failed \cup {row_i + 1}
                /\ IF est.kind = "raise"
                   THEN /\ Fail(est.err)
                        /\ UNCHANGED <<row_i, results, progress>>
                   ELSE /\ results' = AddEntry(results,
                               [rank |-> rank,
                                jp_title |-> jp,
                                en_title |-> IF Truthy(en) THEN en[1]
                                             ELSE machine_translate(jp, mt_ok),
                                en_source |-> SourceOf(en),
                                volume |-> row[3],
                                estimated_sales |-> est.val[1]])
                        /\ progress' = IF mode = "gui"
                                       THEN Append(progress, <<Len(results'), Total>>)
                                       ELSE progress
                        /\ row_i' = row_i + 1
                        /\ UNCHANGED <<pc, error>>
    /\ UNCHANGED <<mode, limit, use_monthly, soup, date_info, breakpoints, rank_lines,
                   unique_titles, en_map, data, written, batch_failed, answered, call>>

(* Lines 284-289 and 306-312, gui 100-112: the result is assembled,        *)
(* returned and written.                                                   *)
Finish ==
    /\ pc = "run"
    /\ unique_titles = {}
    /\ row_i = Len(rank_lines)
    /\ data' = Some([category_type |-> IF use_monthly THEN "monthly" ELSE "weekly",
                     date_info |-> date_info,
                     total_entries |-> Len(results),
                     rankings |-> results])
    /\ written' = TRUE
    /\ pc' = "done"
    /\ UNCHANGED <<mode, limit, use_monthly, soup, date_info, breakpoints, rank_lines,
                   unique_titles, en_map, results, row_i, error, progress,
                   batch_failed, answered, mt_failed, call>>

-----------------------------------------------------------------------------
(* Inputs *)

NoCall == [fn |-> "none", arg |-> 0, out |-> Return(0)]
NoSoup == [header |-> None, text |-> <<>>, entry |-> None]

\* every variable a run or a helper call fills in, before it has
Blank(p) ==
    /\ pc = p
    /\ date_info = NoDate
    /\ rank_lines = <<>>
    /\ unique_titles = {}
    /\ en_map = <<>>
    /\ results = <<>>
    /\ row_i = 0
    /\ data = None
    /\ written = FALSE
    /\ error = None
    /\ progress = <<>>
    /\ batch_failed = {}
    /\ answered = {}
    /\ mt_failed = {}
    /\ call = NoCall

SeqsUpTo(S, n) == UNION {[1..k -> S] : k \in 0..n}

\* "2025<Y>6/30-7/6 x"
WeeklyHeader == <<"2", "0", "2", "5", "Y", "6", "/", "3", "0", "-", "7", "/", "6", " ", "x">>
\* "2025<Y>13<M>"
Month13Header == <<"2", "0", "2", "5", "Y", "1", "3", "M">>

\* marker line, then "3<rank>1 1<rank>8" on the next line
BaselineText1 == <<Sym("kome"), Sym("phrase"), Sym("nl"), PairTok(3, 1), PairTok(1, 8)>>
\* marker line, then "2<rank>4"
BaselineText2 == <<Sym("x"), Sym("kome"), Sym("x"), Sym("phrase"), Sym("x"), Sym("nl"),
                   PairTok(2, 4), Sym("nl"), PairTok(3, 1)>>
\* no marker line
BaselineText3 == <<Sym("phrase"), Sym("nl"), PairTok(1, 8)>>

Articles ==
    {[header |-> Some(WeeklyHeader), monthly |-> FALSE, text |-> BaselineText1],
     [header |-> None, monthly |-> TRUE, text |-> BaselineText2],
     [header |-> Some(Month13Header), monthly |-> TRUE, text |-> BaselineText1],
     [header |-> Some(WeeklyHeader), monthly |-> FALSE, text |-> BaselineText3]}

\* a well-formed ranking line: rank, ISBN link, title, publisher, author, date
Line(rank, title) ==
    <<DigitChars[rank + 1], "LINK", " ">> \o title \o <<" ", "A", " ", "B", " ", "DATE">>
\* a line that is no ranking row
Decoration == <<"<", "A", "<">>

TitleA == <<"A">>
\* full-width "B", full-width space, full-width "2": cleaned to "B 2", volume 2
TitleB2 == <<"FB", "FS", "F2">>

\* markup whose lines carry any ranks, in any order
RankMarkups ==
    {<<Decoration>> \o [i \in 1..Len(rs) |-> Line(rs[i], TitleA)] :
        rs \in SeqsUpTo(0..MaxRank, MaxRows)}
\* markup whose lines are ranked 1, 2, ... and carry any titles
TitleMarkups ==
    {[i \in 1..Len(ts) |-> Line(i, ts[i])] : ts \in SeqsUpTo({TitleA, TitleB2}, MaxRows)}

Entries == {None} \cup {Some(m) : m \in RankMarkups \cup TitleMarkups}

Init ==
    /\ mode \in {"cli", "gui"}
    /\ limit \in 0..MaxLimit
    /\ \E art \in Articles, e \in Entries :
        /\ use_monthly = art.monthly
        /\ soup = [header |-> art.header, text |-> art.text, entry |-> e]
    /\ breakpoints = <<>>
    /\ Blank("fetch")

Next == Fetch \/ Prepare \/ LookupBatch \/ ProcessRow \/ Finish

Spec == Init /\ [][Next]_vars

-----------------------------------------------------------------------------
(* The helpers applied on their own *)

HelperInit(s, bps, monthly) ==
    /\ mode = "cli"
    /\ limit = 1
    /\ use_monthly = monthly
    /\ soup = s
    /\ breakpoints = bps
    /\ Blank("helper")

Called(fn, arg, out) ==
    /\ pc = "helper"
    /\ call = NoCall
    /\ call' = [fn |-> fn, arg |-> arg, out |-> out]
    /\ UNCHANGED <<mode, limit, use_monthly, soup, pc, date_info, breakpoints,
                   rank_lines, unique_titles, en_map, results, row_i, data, written,
                   error, progress, batch_failed, answered, mt_failed>>

\* the baselines _parse_baseline can return: non-empty and sorted
SortedBaselines ==
    {s \in SeqsUpTo((1..MaxBpRank) \X (0..MaxSales), MaxBps) : s # <<>> /\ IsSortedPairs(s)}

InitEstimator == \E bps \in SortedBaselines : HelperInit(NoSoup, bps, FALSE)

CallEstimator ==
    \E rank \in 0..(MaxBpRank + 1) : Called("estimator", rank, estimator(breakpoints, rank))

SpecEstimator == InitEstimator /\ [][CallEstimator]_vars

TextAlphabet ==
    {Sym("kome"), Sym("phrase"), Sym("nl"), Sym("x"), PairTok(2, 4), PairTok(1, 5), PairTok(3, 2)}

InitBaseline ==
    \E text \in SeqsUpTo(TextAlphabet, MaxTextLen) :
        HelperInit([header |-> None, text |-> text, entry |-> None], <<>>, FALSE)

CallParseBaseline == Called("_parse_baseline", 0, parse_baseline(soup.text))

SpecBaseline == InitBaseline /\ [][CallParseBaseline]_vars

\* lines built as: digits, optional space, optional link, a stretch of title
\* symbols, and a tail of tokens; alone after a decoration, or before a good line
InitRows ==
    \/ HelperInit(NoSoup, <<>>, FALSE)
    \/ \E r \in SeqsUpTo({"0", "9"}, MaxRankDigits),
          l \in {<<"LINK">>, <<" ", "LINK">>, <<>>},
          x \in SeqsUpTo({" ", "FS", "A", "FA", "0", "F2", "<"}, MaxTitleLen),
          t \in {<<" ", "B", " ", "B", " ", "DATE">>,
                 <<" ", "B", " ", "DATE">>,
                 <<" ", "B", " ", "B", " ", "DATE", "A">>},
          first \in BOOLEAN :
        HelperInit([header |-> None, text |-> <<>>,
                    entry |-> Some(IF first THEN <<r \o l \o x \o t, Line(1, TitleB2)>>
                                   ELSE <<Decoration, r \o l \o x \o t>>)],
                   <<>>, FALSE)

CallExtractRankList == Called("_extract_rank_list", 0, extract_rank_list(soup.entry))

SpecRows == InitRows /\ [][CallExtractRankList]_vars

MonthStrings == SeqsUpTo({"0", "1", "3"}, MaxMonthDigits)
DayStrings == {<<"6">>, <<"3", "0">>}

\* headers built as: optional prefix, year digits, the year sign, and a month
\* or a week
InitDate ==
    \E monthly \in BOOLEAN :
        \/ HelperInit(NoSoup, <<>>, monthly)
        \/ \E pre \in {<<>>, <<"x">>, <<"1">>},
              year \in {<<"2", "0", "2", "5">>, <<"0", "2", "5">>},
              m \in MonthStrings :
            \/ \E e \in {<<"M">>, <<"M", "x">>, <<>>} :
                HelperInit([header |-> Some(pre \o year \o <<"Y">> \o m \o e),
                            text |-> <<>>, entry |-> None], <<>>, monthly)
            \/ \E n \in MonthStrings, d \in DayStrings, f \in DayStrings :
                HelperInit([header |-> Some(pre \o year \o <<"Y">> \o m \o <<"/">> \o d
                                            \o <<"-">> \o n \o <<"/">> \o f),
                            text |-> <<>>, entry |-> None], <<>>, monthly)

CallExtractDateInfo ==
    Called("_extract_date_info", 0, extract_date_info(soup.header, use_monthly))

SpecDate == InitDate /\ [][CallExtractDateInfo]_vars

-----------------------------------------------------------------------------
(* Properties *)

EstimatorCalled == call.fn = "estimator"
\* the consecutive breakpoints the argument of the call lies strictly between
Between(i) ==
    /\ i \in 1..(Len(breakpoints) - 1)
    /\ breakpoints[i][1] < call.arg
    /\ call.arg < breakpoints[i + 1][1]

(* C1: called with the rank of any breakpoint (r, v) of the baseline, the  *)
(* first included, the estimator returns exactly v.                        *)
C1_ExactBreakpointValue ==
    EstimatorCalled =>
        \A i \in 1..Len(breakpoints) :
            breakpoints[i][1] = call.arg => call.out = Return(breakpoints[i][2])

WithinLimit(row) == row[1] <= limit
\* the extracted rows the loop does not skip, and where the k-th of them stands
Kept == SelectSeq(rank_lines, WithinLimit)
KeptIndex(k) ==
    CHOOSE i \in 1..Len(rank_lines) :
        /\ WithinLimit(rank_lines[i])
        /\ Cardinality({j \in 1..i : WithinLimit(rank_lines[j])}) = k
OutOfDomain(rank) == rank < 1 \/ rank > breakpoints[Len(breakpoints)][1]
\* row i is within the limit and outside the estimator's domain
BadRow(i) == WithinLimit(rank_lines[i]) /\ OutOfDomain(rank_lines[i][1])
RanksOf(entries) == [k \in 1..Len(entries) |-> entries[k].rank]
Ascending(s) == \A i \in 1..(Len(s) - 1) : s[i] <= s[i + 1]

(* C3: a run with an extracted row of rank <= limit outside 1..max         *)
(* breakpoint rank never returns a result: the estimator raises at the     *)
(* first such row, the run fails, nothing is returned or written, however  *)
(* many rows were processed before; a row with rank > limit never raises.  *)
C3_RankOutOfRangeAborts ==
    /\ pc = "done" => \A i \in 1..Len(rank_lines) : ~BadRow(i)
    /\ pc = "failed" => data = None /\ ~written
    /\ (pc = "failed" /\ error = Some("ValueError")) =>
            /\ row_i < Len(rank_lines)
            /\ BadRow(row_i + 1)
            /\ \A j \in 1..row_i : ~BadRow(j)
    /\ (pc = "run" /\ row_i < Len(rank_lines)) => \A j \in 1..row_i : ~BadRow(j)

\* a failed run that had appended an entry and skipped an out-of-domain row
\* above the limit before the estimator raised
C3_Witness ==
    /\ pc = "failed"
    /\ error = Some("ValueError")
    /\ results # <<>>
    /\ \E j \in 1..row_i : ~WithinLimit(rank_lines[j]) /\ OutOfDomain(rank_lines[j][1])

(* C4: the rankings of a successful run are the extracted rows with        *)
(* rank <= limit, one entry each, in the extracted order, and              *)
(* total_entries is their number.                                          *)
C4_ExactlyRowsWithinLimit ==
    pc = "done" =>
        /\ Len(data[1].rankings) = Len(Kept)
        /\ \A k \in 1..Len(Kept) :
            /\ data[1].rankings[k].rank = Kept[k][1]
            /\ data[1].rankings[k].jp_title = Kept[k][2]
            /\ data[1].rankings[k].volume = Kept[k][3]
        /\ data[1].total_entries = Len(data[1].rankings)

\* a successful run that kept several rows and skipped at least one
C4_Witness ==
    /\ pc = "done"
    /\ Len(data[1].rankings) >= 2
    /\ Len(data[1].rankings) < Len(rank_lines)

(* C5 as stated: the rankings of every returned result are in ascending    *)
(* rank order.                                                             *)
C5_AlwaysAscending == pc = "done" => Ascending(RanksOf(data[1].rankings))

(* C5 amended: the rankings of a returned result keep the order in which   *)
(* the rows were extracted, so they are in ascending rank order exactly    *)
(* when the extracted rows with rank <= limit stand in ascending rank      *)
(* order in the markup.                                                    *)
C5_AscendingIffExtractedAscending ==
    pc = "done" =>
        /\ RanksOf(data[1].rankings) = [k \in 1..Len(Kept) |-> Kept[k][1]]
        /\ Ascending(RanksOf(data[1].rankings))
            <=> Ascending([k \in 1..Len(Kept) |-> Kept[k][1]])

\* a result whose rankings are not ascending
C5_Witness ==
    /\ pc = "done"
    /\ Len(data[1].rankings) >= 2
    /\ ~Ascending(RanksOf(data[1].rankings))

(* C6: no lookup or translation failure ends a run (a run fails only on a  *)
(* fetch, baseline, date or estimator error), and in a finished run every  *)
(* entry is tagged anilist exactly when the lookup returned a name for its *)
(* title and machine_translation otherwise; every title of a failed batch  *)
(* is tagged machine_translation; a failed translation leaves the          *)
(* Japanese title as en_title.                                             *)
C6_LookupFailuresAbsorbed ==
    /\ pc = "failed" =>
            error \in {Some("fetch failed"), Some("Baseline line not found."),
                       Some("No baseline rank/sales pairs found."),
                       Some("IndexError"), Some("ValueError")}
    /\ (pc = "failed" /\ error = Some("ValueError")) => BadRow(row_i + 1)
    /\ pc = "done" =>
            \A k \in 1..Len(data[1].rankings) :
                LET e == data[1].rankings[k]
                IN  /\ e.en_source \in {"anilist", "machine_translation"}
                    /\ e.en_source = "anilist" <=> e.jp_title \in answered
                    /\ e.jp_title \in batch_failed => e.en_source = "machine_translation"
                    /\ e.en_source = "anilist" => e.en_title = AniListName(e.jp_title)
                    /\ e.en_source = "machine_translation" =>
                         e.en_title = IF KeptIndex(k) \in mt_failed
                                      THEN e.jp_title ELSE Translation(e.jp_title)

\* the text after the marker phrase of the first marker line, to the end
AfterMarker(text) ==
    LET i == Least(MarkerStarts(text))
        j == Least({k \in (i + 1)..Len(text) : text[k].t = "phrase"})
    IN  SubSeq(text, j + 1, Len(text))

(* C7: _parse_baseline fails with "Baseline line not found." exactly when  *)
(* the text has no marker line; otherwise it returns every rank/sales      *)
(* token of the rest of the marker line and of the text after it, sorted   *)
(* by rank, and fails with "No baseline rank/sales pairs found." only      *)
(* when there is no such token.                                            *)
C7_ScansMarkerLineAndFollowingText ==
    call.fn = "_parse_baseline" =>
        IF MarkerStarts(soup.text) = {}
        THEN call.out = Raise("Baseline line not found.")
        ELSE IF FindPairs(AfterMarker(soup.text)) = <<>>
        THEN call.out = Raise("No baseline rank/sales pairs found.")
        ELSE call.out = Return(SortPairs(FindPairs(AfterMarker(soup.text))))

(* C8: every row _extract_rank_list returns has 1 <= rank <= 999, a        *)
(* non-empty title and a volume that is absent or positive, and no line    *)
(* yields more than one row.                                               *)
C8_RankRowInvariant ==
    call.fn = "_extract_rank_list" =>
        /\ \A i \in 1..Len(call.out) :
            /\ call.out[i][1] >= 1
            /\ call.out[i][1] <= 999
            /\ call.out[i][2] # <<>>
            /\ call.out[i][3] = None \/ call.out[i][3][1] > 0
        /\ soup.entry # None => Len(call.out) <= Len(soup.entry[1])

(* C9: _extract_date_info never raises; week is set only for the weekly    *)
(* period; a missing header, a header that does not fit the period's       *)
(* pattern, and a header whose month is not a month give five absent       *)
(* fields.                                                                 *)
C9_DateInfoNeverRaises ==
    call.fn = "_extract_date_info" =>
        /\ call.out.kind = "return"
        /\ call.out.val[1].week # None => ~use_monthly
        /\ call.out.val[1].month # None =>
                use_monthly /\ IntOf(call.out.val[1].month[1]) \in 1..12
        /\ (\/ soup.header = None
            \/ (use_monthly /\ MonthlyStarts(soup.header[1]) = {})
            \/ (~use_monthly /\ WeeklyStarts(soup.header[1]) = {}))
                => call.out.val[1] = NoDate

(* C10: in a GUI run the k-th progress event is (k, total) with            *)
(* total = min(limit, number of extracted rows) and 1 <= k <= total, and   *)
(* the last event of a successful run has current = total.                 *)
C10_ProgressWithinTotal ==
    mode = "gui" =>
        /\ \A k \in 1..Len(progress) :
            /\ progress[k] = <<k, Min(limit, Len(rank_lines))>>
            /\ k <= progress[k][2]
        /\ (pc = "done" /\ progress # <<>>) =>
                progress[Len(progress)][1] = progress[Len(progress)][2]

====
